---- MODULE Spec2Model ----
(***************************************************************************)
(* Model of convexSPPExplorator (ipa_room_exploration): the set-cover      *)
(* sensing-pose planner getExplorationPath and its solver adapter          *)
(* solveOptimizationProblem; and of ExplorationEvaluation, which writes    *)
(* the planned paths of the rooms of a map to a results log                *)
(* (planCoveragePaths) and reads the log back (evaluateCoveragePaths).     *)
(*                                                                         *)
(* Numbers.  Pixel coordinates are integers.  Metric quantities (the       *)
(* footprint, the sensing radii) are integers in a length unit of which    *)
(* map_resolution is the number per pixel; map_origin is the zero vector.  *)
(* Headings are counted in quarter turns, so that the rotation matrix is   *)
(* exact.  Solver values (the entries of C) are counted in hundredths:     *)
(* 0 is 0.0, 1 is 0.01, 50 is 0.5 and 100 is 1.0.                          *)
(***************************************************************************)
EXTENDS Integers, Sequences, FiniteSets, TLC

VARIABLES
    \* ---- arguments of getExplorationPath (fixed during a run) ----
    room_map,                   \* [rows, cols, px]: px[<<y, x>>] is the pixel value
    room_min_max_coordinates,   \* <<min corner, max corner>>, each [x, y]
    cell_size,
    delta_theta,                \* angular step, in quarter turns
    sensor,                     \* footprint, robot_to_fow_middlepoint_vector, max_fow_angle,
                                \* smallest/largest_robot_to_fow_distance, map_resolution
    sparsity_check_range,
    path,                       \* the output parameter
    \* ---- the external solver: the replies it gives to the relaxed solves ----
    solver_replies,             \* the replies, in call order
    loop_from,                  \* after the last reply the solver continues from this one
    reply_at,                   \* index of the reply the next relaxed solve gets
    \* ---- locals of getExplorationPath ----
    pc,
    cell_centers,
    candidate_sensing_poses,
    W,
    V,
    C,
    sparsity_converged,
    weight_epsilon,
    exponent,
    number_of_iterations,
    sparsity_measures,
    new_number_of_variables,
    V_reduced,
    C_reduced,
    \* ---- observation of the solver boundary ----
    solver_calls,               \* number of calls of solveOptimizationProblem so far
    solver_problem,             \* the problem the latest call handed to the solver
    solver_status,              \* the status the latest QSopt_dual call ended with
    \* ---- the working directory ----
    files,                      \* what lin_prog.lp and int_lin_prog.lp hold
    \* ---- ExplorationEvaluation: what the planning of each room gave, the map ----
    room_results,               \* per room [planned, calculation_time, coverage_path]
    exploration_algorithm,      \* config->exploration_algorithm_
    \* ---- planCoveragePaths ----
    evaluation_pc,
    room_index,                 \* the room the loop of planCoveragePaths is at
    output,                     \* the lines streamed into the log so far
    results_file,               \* the lines of <map>_results.txt
    \* ---- evaluateCoveragePaths ----
    lines_read,                 \* number of lines getline has returned
    paths,
    calculation_times,
    current_path,
    initial,
    room,                       \* the room the evaluation loop is at
    nonzero_paths,
    report                      \* what the evaluation file says about the counts

inputs == <<room_map, room_min_max_coordinates, cell_size, delta_theta, sensor,
            sparsity_check_range, solver_replies, loop_from>>
locals == <<pc, cell_centers, candidate_sensing_poses, W, V, C, sparsity_converged,
            weight_epsilon, exponent, number_of_iterations, sparsity_measures,
            new_number_of_variables, V_reduced, C_reduced>>
solver == <<solver_calls, solver_problem, solver_status, files>>
evaluation == <<room_results, exploration_algorithm, evaluation_pc,
                room_index, output, results_file, lines_read, paths,
                calculation_times, current_path, initial, room, nonzero_paths, report>>
vars == <<inputs, path, reply_at, locals, solver, evaluation>>

----------------------------------------------------------------------------
(* Small helpers *)

Abs(a) == IF a < 0 THEN -a ELSE a
Max(a, b) == IF a >= b THEN a ELSE b
Min(a, b) == IF a <= b THEN a ELSE b

\* conversion of a real quotient a/b (b > 0) to an integer type: truncation toward zero
TruncDiv(a, b) == IF a >= 0 THEN a \div b ELSE -((-a) \div b)

RECURSIVE SumSeq(_)
SumSeq(s) == IF s = <<>> THEN 0 ELSE Head(s) + SumSeq(Tail(s))

RECURSIVE Flatten(_)
Flatten(ss) == IF ss = <<>> THEN <<>> ELSE Head(ss) \o Flatten(Tail(ss))

----------------------------------------------------------------------------
(* I. Discretisation: getExplorationPath, lines 170-191 *)

FREE == 255        \* a white pixel: free space
OBSTACLE == 0      \* a black pixel: the line of sight test stops at it

\* for(size_t v = lo; v <= hi; v += step): the values v takes
RECURSIVE LoopValues(_, _, _)
LoopValues(lo, hi, step) ==
    IF lo > hi THEN <<>> ELSE <<lo>> \o LoopValues(lo + step, hi, step)

\* mutant of FirstCenter: the first centre on the minimum corner itself
FirstCenterOnCorner(min, cs) == min

\* size_t v = min + 0.5*cell_size: the half cell is truncated by the conversion
FirstCenter(min, cs) == min + TruncDiv(cs, 2)

CellYs(roi, cs) == LoopValues(FirstCenter(roi[1].y, cs), roi[2].y, cs)
CellXs(roi, cs) == LoopValues(FirstCenter(roi[1].x, cs), roi[2].x, cs)

IsFreePixel(map, x, y) == map.px[<<y, x>>] = FREE

\* the free grid points of one lattice row, x ascending
CellsOfRow(map, roi, cs, y) ==
    LET xs == CellXs(roi, cs)
        pts == [i \in 1..Len(xs) |-> [x |-> xs[i], y |-> y]]
    IN SelectSeq(pts, LAMBDA p : IsFreePixel(map, p.x, p.y))

CellCenters(map, roi, cs) ==
    LET ys == CellYs(roi, cs)
    IN Flatten([j \in 1..Len(ys) |-> CellsOfRow(map, roi, cs, ys[j])])

FULL_TURN == 4     \* 2*PI, in quarter turns

\* mutant of Angles: the loop runs up to the full turn (<= for <)
AnglesUpToFullTurn(dtheta) == LoopValues(0, FULL_TURN, dtheta)

\* for(double angle = 0; angle < 2.0*PI; angle += delta_theta)
Angles(dtheta) == LoopValues(0, FULL_TURN - 1, dtheta)

CandidatePoses(cells, dtheta) ==
    LET as == Angles(dtheta)
    IN Flatten([i \in 1..Len(cells) |->
                  [a \in 1..Len(as) |-> [x |-> cells[i].x, y |-> cells[i].y, theta |-> as[a]]]])

----------------------------------------------------------------------------
(* II. The visibility matrix: getExplorationPath, lines 193-298 *)

\* R * v for the rotation matrix R of a heading of theta quarter turns
Rotate(theta, v) ==
    CASE theta % 4 = 0 -> [x |-> v.x, y |-> v.y]
      [] theta % 4 = 1 -> [x |-> -v.y, y |-> v.x]
      [] theta % 4 = 2 -> [x |-> -v.x, y |-> -v.y]
      [] theta % 4 = 3 -> [x |-> v.y, y |-> -v.x]

\* one footprint point in pixels: pose in metres plus the rotated point, back to
\* pixels (the cv::Point conversion truncates), then held to the map borders
TransformedFowPoint(map, s, pose, fp) ==
    LET r == Rotate(pose.theta, fp)
        px == TruncDiv(pose.x * s.map_resolution + r.x, s.map_resolution)
        py == TruncDiv(pose.y * s.map_resolution + r.y, s.map_resolution)
    IN [x |-> Min(Max(px, 0), map.cols), y |-> Min(Max(py, 0), map.rows)]

TransformedFowPoints(map, s, pose) ==
    [i \in 1..Len(s.footprint) |-> TransformedFowPoint(map, s, pose, s.footprint[i])]

\* mutant of InRange: the radii themselves are excluded (> and < for >= and <=)
InRangeStrict(s, pose, cell) ==
    LET dx == cell.x - pose.x
        dy == cell.y - pose.y
        d2 == (dx * dx + dy * dy) * s.map_resolution * s.map_resolution
    IN /\ d2 > s.smallest_robot_to_fow_distance * s.smallest_robot_to_fow_distance
       /\ d2 < s.largest_robot_to_fow_distance * s.largest_robot_to_fow_distance

\* distance >= smallest/map_resolution && distance <= largest/map_resolution,
\* compared on the squares (all quantities are >= 0)
InRange(s, pose, cell) ==
    LET dx == cell.x - pose.x
        dy == cell.y - pose.y
        d2 == (dx * dx + dy * dy) * s.map_resolution * s.map_resolution
    IN /\ d2 >= s.smallest_robot_to_fow_distance * s.smallest_robot_to_fow_distance
       /\ d2 <= s.largest_robot_to_fow_distance * s.largest_robot_to_fow_distance

\* float quotient = dot/abs, lines 256-258: with abs = 0 (the neighbor is the
\* cell of the pose, or the middle point vector is zero) dot is 0 as well and the
\* quotient is 0/0 = NaN; nothing tests abs before the division
QuotientIsNaN(s, pose, cell) ==
    LET m == Rotate(pose.theta, s.robot_to_fow_middlepoint_vector)
        nx == cell.x - pose.x
        ny == cell.y - pose.y
    IN (m.x * m.x + m.y * m.y) * (nx * nx + ny * ny) = 0

\* acos(clamp(dot/abs)) <= max_fow_angle.  max_fow_angle is given by its cosine
\* sign * sqrt(num/den); acos is decreasing, so the test is dot/abs >= cosine,
\* decided on the squares.  With abs = 0 the quotient is 0/0 = NaN: neither clamp
\* applies, acos(NaN) is NaN and NaN <= max_fow_angle is false.
InAngle(s, pose, cell) ==
    LET m == Rotate(pose.theta, s.robot_to_fow_middlepoint_vector)
        nx == cell.x - pose.x
        ny == cell.y - pose.y
        dot == m.x * nx + m.y * ny
        abs2 == (m.x * m.x + m.y * m.y) * (nx * nx + ny * ny)
        c == s.max_fow_angle
    IN IF QuotientIsNaN(s, pose, cell) THEN FALSE
       ELSE IF c.sign >= 0
            THEN dot >= 0 /\ dot * dot * c.den >= c.num * abs2
            ELSE dot >= 0 \/ dot * dot * c.den <= c.num * abs2

\* cv::pointPolygonTest(polygon, pt, false) >= 0: pt is inside the polygon or on
\* its border.  Border: pt lies on one of the edges.  Inside: a ray from pt in
\* direction +x crosses the border an odd number of times.
OnSegment(a, b, pt) ==
    /\ (pt.y - a.y) * (b.x - a.x) = (pt.x - a.x) * (b.y - a.y)
    /\ Min(a.x, b.x) <= pt.x /\ pt.x <= Max(a.x, b.x)
    /\ Min(a.y, b.y) <= pt.y /\ pt.y <= Max(a.y, b.y)

RayCrosses(a, b, pt) ==
    LET lo == IF a.y <= b.y THEN a ELSE b
        hi == IF a.y <= b.y THEN b ELSE a
    IN /\ lo.y <= pt.y /\ pt.y < hi.y
       /\ (hi.x - lo.x) * (pt.y - lo.y) > (pt.x - lo.x) * (hi.y - lo.y)

PointPolygonTest(poly, pt) ==
    LET n == Len(poly)
        Next1(i) == IF i = n THEN 1 ELSE i + 1
        edges == 1..n
    IN IF \E i \in edges : OnSegment(poly[i], poly[Next1(i)], pt) THEN 0
       ELSE IF Cardinality({i \in edges : RayCrosses(poly[i], poly[Next1(i)], pt)}) % 2 = 1
            THEN 1 ELSE -1

\* cv::LineIterator(room_map, from, to, 8): the pixels of the 8-connected
\* Bresenham line, count = max(|dx|, |dy|) + 1 of them, both ends included
RECURSIVE LineSteps(_, _, _, _, _, _, _)
LineSteps(pos, err, left, major, minor, plusDelta, minusDelta) ==
    IF left = 0 THEN <<>>
    ELSE LET both == err < 0
             nxt == IF both
                    THEN [x |-> pos.x + major.x + minor.x, y |-> pos.y + major.y + minor.y]
                    ELSE [x |-> pos.x + major.x, y |-> pos.y + major.y]
             nerr == err + minusDelta + (IF both THEN plusDelta ELSE 0)
         IN <<pos>> \o LineSteps(nxt, nerr, left - 1, major, minor, plusDelta, minusDelta)

Sign(a) == IF a < 0 THEN -1 ELSE 1

LinePixels(from, to) ==
    LET dx == Abs(to.x - from.x)
        dy == Abs(to.y - from.y)
        xstep == [x |-> Sign(to.x - from.x), y |-> 0]
        ystep == [x |-> 0, y |-> Sign(to.y - from.y)]
        steep == ~(dx > dy)
        dmaj == IF steep THEN dy ELSE dx
        dmin == IF steep THEN dx ELSE dy
    IN LineSteps([x |-> from.x, y |-> from.y], dmaj - 2 * dmin, dmaj + 1,
                 IF steep THEN ystep ELSE xstep, IF steep THEN xstep ELSE ystep,
                 2 * dmaj, -(2 * dmin))

HitObstacle(map, pose, cell) ==
    LET line == LinePixels(pose, cell)
    IN \E i \in 1..Len(line) : map.px[<<line[i].y, line[i].x>>] = OBSTACLE

\* mutant of Visibility: only the 1 is written, otherwise the entry keeps what
\* the allocation of V left in it (here 205)
VisibilityWritesOnlyOnes(map, s, pose, cell) ==
    IF /\ InRange(s, pose, cell) /\ InAngle(s, pose, cell)
       /\ PointPolygonTest(TransformedFowPoints(map, s, pose), cell) >= 0
       /\ ~HitObstacle(map, pose, cell)
    THEN 1 ELSE 205

\* mutant of Visibility: the line of sight is not tested
VisibilityWithoutSight(map, s, pose, cell) ==
    IF InRange(s, pose, cell) /\ InAngle(s, pose, cell)
       /\ PointPolygonTest(TransformedFowPoints(map, s, pose), cell) >= 0
    THEN 1 ELSE 0

\* the value the gate cascade writes to V[cell][pose]
Visibility(map, s, pose, cell) ==
    IF InRange(s, pose, cell)
    THEN IF InAngle(s, pose, cell)
         THEN IF PointPolygonTest(TransformedFowPoints(map, s, pose), cell) >= 0
              THEN IF ~HitObstacle(map, pose, cell) THEN 1 ELSE 0
              ELSE 0
         ELSE 0
    ELSE 0

\* a cv::Mat of uchar: rows, cols and the entries at[row][col], both from 1
VisibilityMatrix(map, s, cells, poses) ==
    [rows |-> Len(cells), cols |-> Len(poses),
     at |-> [i \in 1..Len(cells) |-> [j \in 1..Len(poses) |->
                Visibility(map, s, poses[j], cells[i])]]]

\* mutant of InitialWeights: the initial weight 0.5
InitialWeightsHalf(n) == [i \in 1..n |-> [num |-> 1, den |-> 2]]

\* std::vector<double> W(number_of_candidates, 1.0).  A weight is the quotient
\* num/den of two integers.
InitialWeights(n) == [i \in 1..n |-> [num |-> 1, den |-> 1]]

----------------------------------------------------------------------------
(* solveOptimizationProblem, lines 10-139, and the external solver QSopt *)

QS_LP_OPTIMAL == "QS_LP_OPTIMAL"
QS_LP_INFEASIBLE == "QS_LP_INFEASIBLE"
QS_LP_UNSOLVED == "QS_LP_UNSOLVED"      \* the default branch, and rval != 0
NOT_CALLED == "not called"

ONE == 100         \* 1.0 in hundredths

\* mutant of VariableIndices: the columns with a 0 are gathered
VariableIndicesOfZeros(Vm, row) ==
    SelectSeq([col \in 1..Vm.cols |-> col], LAMBDA col : Vm.at[row][col] = 0)

\* lines 33-40: variable_indices of one row, the columns col with V[row][col] == 1
VariableIndices(Vm, row) ==
    SelectSeq([col \in 1..Vm.cols |-> col], LAMBDA col : Vm.at[row][col] = 1)

\* lines 42-45: QSadd_row(problem, size, indices, coefficients, 1.0, 'G', NULL),
\* every coefficient 1.0
CoveringRow(variable_indices) ==
    [indices |-> variable_indices,
     coefficients |-> [k \in 1..Len(variable_indices) |-> ONE],
     rhs |-> ONE, sense |-> "G"]

\* lines 19-49 and 53-97: the problem given to QSopt_dual.  One column per entry
\* of C with bounds [0.0, 1.0] and cost W[variable] (1.0 without W), one row
\* sum(x[variable_indices]) >= 1.0 per row of V, and without W all columns are
\* declared Integer.
Problem(nvars, Vm, weighted, Wv) ==
    [ncols |-> nvars,
     cost |-> [i \in 1..nvars |-> IF weighted THEN Wv[i] ELSE [num |-> 1, den |-> 1]],
     lower |-> 0, upper |-> ONE,
     rows |-> [row \in 1..Vm.rows |-> CoveringRow(VariableIndices(Vm, row))],
     integer |-> IF weighted THEN {} ELSE 1..nvars]

\* the values a solution is drawn from: 0.0, 0.01 and 1.0
Vals == {0, 1, ONE}
\* what an unfilled result buffer holds in every entry: 0.0 or 0.5
GarbageVals == {0, 50}

RowValue(x, row) ==
    SumSeq([k \in 1..Len(row.indices) |-> (row.coefficients[k] * x[row.indices[k]]) \div ONE])

\* x satisfies the bounds, the covering rows and the Integer declarations
Feasible(prob, x) ==
    /\ \A i \in 1..prob.ncols : prob.lower <= x[i] /\ x[i] <= prob.upper
    /\ \A r \in 1..Len(prob.rows) : RowValue(x, prob.rows[r]) >= prob.rows[r].rhs
    /\ \A i \in prob.integer : x[i] \in {0, ONE}

HasSolution(prob) == \A r \in 1..Len(prob.rows) : prob.rows[r].indices /= <<>>

\* What QSopt_dual and QSget_solution can answer to prob.  With status optimal
\* the result is a solution of prob.  Otherwise QSget_solution fills nothing
\* and the malloc'ed result buffer keeps whatever it held.
Replies(prob) ==
    {[status |-> QS_LP_OPTIMAL, x |-> x] :
        x \in {v \in [1..prob.ncols -> IF prob.integer = {} THEN Vals ELSE {0, ONE}] :
                  Feasible(prob, v)}}
    \cup {[status |-> st, x |-> g] :
            st \in {QS_LP_UNSOLVED} \cup (IF HasSolution(prob) THEN {} ELSE {QS_LP_INFEASIBLE}),
            g \in {[i \in 1..prob.ncols |-> v] : v \in GarbageVals}}

\* lines 56, 62-89 and 138: the files a call leaves behind.  Every call writes
\* the problem it solved to lin_prog.lp; a call without W has also written it,
\* with the Integer section, to int_lin_prog.lp.
LIN_PROG == "lin_prog.lp"
INT_LIN_PROG == "int_lin_prog.lp"
FileNames == {LIN_PROG, INT_LIN_PROG}

FilesAfterSolve(fs, prob, weighted) ==
    [n \in FileNames |->
        IF n = LIN_PROG \/ ~weighted THEN [written |-> TRUE, problem |-> prob] ELSE fs[n]]

\* line 133, C[variable] = result[variable], for the final solve: C_reduced
\* holds ints, the conversion from double truncates
AsInt(x) == [i \in 1..Len(x) |-> TruncDiv(x[i], ONE)]

----------------------------------------------------------------------------
(* III.1 The reweighting loop: getExplorationPath, lines 320-361 *)

MAX_ITERATIONS == 200
SPARSITY_EPS == 1      \* 0.01 in hundredths

\* int exponent = 1 + (number_of_iterations - 1)*0.1: truncated to an int
Exponent(k) == 1 + TruncDiv(k - 1, 10)

\* std::pow(1/(euler_constant - 1), exponent), in millionths
EPS_BASE == 581977
EPS_SCALE == 1000000
\* p * 1/(euler_constant - 1), the product taken in two parts to stay in range
TimesEpsBase(p) ==
    (p * (EPS_BASE \div 1000)) \div 1000 + (p * (EPS_BASE % 1000)) \div EPS_SCALE

\* (the set binds the previous power as a value, so it is computed once)
RECURSIVE EpsilonPow(_)
EpsilonPow(e) ==
    IF e = 0 THEN EPS_SCALE
    ELSE CHOOSE r \in {TimesEpsBase(p) : p \in {EpsilonPow(e - 1)}} : TRUE

\* mutant of UpdatedWeights: the quotient turned upside down
UpdatedWeightsInverted(eps, Cv) ==
    [i \in 1..Len(Cv) |-> [num |-> eps + Cv[i] * (EPS_SCALE \div ONE), den |-> eps]]

\* W[weight] = weight_epsilon/(weight_epsilon + C[weight])
UpdatedWeights(eps, Cv) ==
    [i \in 1..Len(Cv) |-> [num |-> eps, den |-> eps + Cv[i] * (EPS_SCALE \div ONE)]]

\* mutant of SparsityMeasure: the tolerance itself is not counted (< for <=)
SparsityMeasureStrict(Cv) == Cardinality({i \in 1..Len(Cv) : Cv[i] < SPARSITY_EPS})

\* l^0_eps: |{i : C[i] <= 0.01}|
SparsityMeasure(Cv) == Cardinality({i \in 1..Len(Cv) : Cv[i] <= SPARSITY_EPS})

\* mutant of NumberOfLastMeasure: the latest measure itself is not counted
NumberOfLastMeasureWithoutLatest(measures, range) ==
    Cardinality({i \in (Len(measures) - range + 1)..(Len(measures) - 1) :
                    measures[i] = measures[Len(measures)]})

\* lines 349-358: the measures among the last `range` that equal the latest one
NumberOfLastMeasure(measures, range) ==
    Cardinality({i \in (Len(measures) - range + 1)..Len(measures) :
                    measures[i] = measures[Len(measures)]})

\* mutant of Converged: the check starts one iteration late (> for >=)
ConvergedLate(measures, range, before) ==
    IF Len(measures) > range
    THEN (IF NumberOfLastMeasure(measures, range) = range THEN TRUE ELSE before)
    ELSE before

Converged(measures, range, before) ==
    IF Len(measures) >= range
    THEN (IF NumberOfLastMeasure(measures, range) = range THEN TRUE ELSE before)
    ELSE before

\* mutant of LoopAgain: no iteration limit
LoopAgainWithoutLimit(converged, k) == converged = FALSE

\* mutant of LoopAgain: the convergence flag tested the wrong way round
LoopAgainInverted(converged, k) == converged = TRUE /\ k <= MAX_ITERATIONS

\* the loop condition of line 361
LoopAgain(converged, k) == converged = FALSE /\ k <= MAX_ITERATIONS

----------------------------------------------------------------------------
(* III.2 Reduction and final solve: getExplorationPath, lines 363-385 *)

\* cv::Mat(rows, 1, CV_8U): one column, not initialised
OneColumn(rows, fill) == [rows |-> rows, cols |-> 1, at |-> [i \in 1..rows |-> <<fill>>]]

\* cv::hconcat(M, V.col(col), M)
HConcat(M, Vm, col) ==
    [rows |-> M.rows, cols |-> M.cols + 1,
     at |-> [i \in 1..M.rows |-> Append(M.at[i], Vm.at[i][col])]]

\* mutant of ColRange: the range starts at the first column whatever `from` is
ColRangeFromFirst(M, from, to) ==
    [rows |-> M.rows, cols |-> to,
     at |-> [i \in 1..M.rows |-> SubSeq(M.at[i], 1, to)]]

\* M.colRange(from, to): the columns from (0-based, inclusive) to to (exclusive)
ColRange(M, from, to) ==
    [rows |-> M.rows, cols |-> to - from,
     at |-> [i \in 1..M.rows |-> SubSeq(M.at[i], from + 1, to)]]

\* mutant of KeepsColumn: the sparsity tolerance used for the exact comparison
KeepsColumnWithinEps(Cv, i) == Cv[i] <= SPARSITY_EPS

\* line 369: the test that keeps a candidate pose for the reduced problem
KeepsColumn(Cv, i) == Cv[i] = 0

\* lines 367-378: the loop over C, started at entry `from`
RECURSIVE ReduceFrom(_, _, _, _)
ReduceFrom(M, Vm, Cv, from) ==
    IF from > Len(Cv) THEN M
    ELSE ReduceFrom(IF KeepsColumn(Cv, from) THEN HConcat(M, Vm, from) ELSE M, Vm, Cv, from + 1)

NewNumberOfVariables(Cv) == Cardinality({i \in 1..Len(Cv) : KeepsColumn(Cv, i)})

ReducedMatrix(Vm, Cv, fill) ==
    LET M == ReduceFrom(OneColumn(Vm.rows, fill), Vm, Cv, 1)
    IN ColRange(M, 1, M.cols)

----------------------------------------------------------------------------
(* getExplorationPath as a state machine *)

NoMatrix == [rows |-> 0, cols |-> 0, at |-> <<>>]
NoProblem == [ncols |-> 0, cost |-> <<>>, lower |-> 0, upper |-> ONE, rows |-> <<>>,
              integer |-> {}]

NoFiles == [n \in FileNames |-> [written |-> FALSE, problem |-> NoProblem]]

\* the position of the next reply of the solver
NextReply(at) == IF at = Len(solver_replies) THEN loop_from ELSE at + 1

\* lines 170-191
Discretize ==
    /\ pc = "start"
    /\ cell_centers' = CellCenters(room_map, room_min_max_coordinates, cell_size)
    /\ candidate_sensing_poses' = CandidatePoses(cell_centers', delta_theta)
    /\ pc' = "build"
    /\ UNCHANGED <<evaluation, inputs, path, reply_at, solver, W, V, C, sparsity_converged,
                   weight_epsilon, exponent, number_of_iterations, sparsity_measures,
                   new_number_of_variables, V_reduced, C_reduced>>

\* lines 193-325
BuildMatrices ==
    /\ pc = "build"
    /\ W' = InitialWeights(Len(candidate_sensing_poses))
    /\ V' = VisibilityMatrix(room_map, sensor, cell_centers, candidate_sensing_poses)
    /\ C' = [i \in 1..Len(candidate_sensing_poses) |-> 0]
    /\ sparsity_converged' = FALSE
    /\ weight_epsilon' = 0
    /\ number_of_iterations' = 0
    /\ sparsity_measures' = <<>>
    /\ pc' = "iterate"
    /\ UNCHANGED <<evaluation, inputs, path, reply_at, solver, cell_centers, candidate_sensing_poses,
                   exponent, new_number_of_variables, V_reduced, C_reduced>>

\* lines 326-361: one pass of the do-while loop
Iterate ==
    /\ pc = "iterate"
    /\ LET prob == Problem(Len(C), V, TRUE, W)
           reply == solver_replies[reply_at]
           k == number_of_iterations + 1
           e == Exponent(k)
           eps == EpsilonPow(e)
           measures == Append(sparsity_measures, SparsityMeasure(reply.x))
           converged == Converged(measures, sparsity_check_range, sparsity_converged)
       IN /\ number_of_iterations' = k
          /\ solver_calls' = solver_calls + 1
          /\ solver_problem' = prob
          /\ solver_status' = reply.status
          /\ files' = FilesAfterSolve(files, prob, TRUE)
          /\ reply_at' = NextReply(reply_at)
          /\ C' = reply.x
          /\ exponent' = e
          /\ weight_epsilon' = eps
          /\ W' = UpdatedWeights(eps, reply.x)
          /\ sparsity_measures' = measures
          /\ sparsity_converged' = converged
          /\ pc' = IF LoopAgain(converged, k) THEN "iterate" ELSE "reduce"
    /\ UNCHANGED <<evaluation, inputs, path, cell_centers, candidate_sensing_poses, V,
                   new_number_of_variables, V_reduced, C_reduced>>

\* lines 363-381
Reduce ==
    /\ pc = "reduce"
    /\ new_number_of_variables' = NewNumberOfVariables(C)
    /\ \E fill \in {0, 1} : V_reduced' = ReducedMatrix(V, C, fill)
    /\ pc' = "final"
    /\ UNCHANGED <<evaluation, inputs, path, reply_at, solver, cell_centers, candidate_sensing_poses,
                   W, V, C, sparsity_converged, weight_epsilon, exponent,
                   number_of_iterations, sparsity_measures, C_reduced>>

\* lines 383-391: the final solve, and the return
FinalSolve ==
    /\ pc = "final"
    /\ LET prob == Problem(new_number_of_variables, V_reduced, FALSE, <<>>)
       IN \E reply \in Replies(prob) :
            /\ solver_calls' = solver_calls + 1
            /\ solver_problem' = prob
            /\ solver_status' = reply.status
            /\ files' = FilesAfterSolve(files, prob, FALSE)
            /\ C_reduced' = AsInt(reply.x)
    /\ pc' = "done"
    /\ UNCHANGED <<evaluation, inputs, path, reply_at, cell_centers, candidate_sensing_poses,
                   W, V, C, sparsity_converged, weight_epsilon, exponent,
                   number_of_iterations, sparsity_measures, new_number_of_variables,
                   V_reduced>>

Next == Discretize \/ BuildMatrices \/ Iterate \/ Reduce \/ FinalSolve

----------------------------------------------------------------------------
(* ExplorationEvaluation: the results log of a map, written by              *)
(* planCoveragePaths and read by evaluateCoveragePaths.                     *)
(*                                                                          *)
(* Text.  A line is a sequence of pieces; a piece is a word, which holds no *)
(* digit, or a number in its decimal writing, which begins with a minus     *)
(* sign when it is negative.  Coordinates, headings and times are integers. *)

Word(s) == [numeric |-> FALSE, text |-> s, number |-> 0]
Number(n) == [numeric |-> TRUE, text |-> "", number |-> n]
EmptyLine == <<>>

CONVEX_SPP_EXPLORATOR == 4
FLOW_NETWORK_EXPLORATOR == 5
MAX_TIME == 1800
MAX_TIME_FLOW_NETWORK == 10800
\* the map: its origin is the zero vector, and lengths are counted in the unit of
\* which map_resolution is one per pixel
MAP_ORIGIN == 0
MapResolution == 1

ROOM_TEXT == "room "
EXCEEDED_TEXT == " exceeded the time limitation for computation"
BUG_TEXT == " had a bug"
TIME_TEXT == "calculation time: "
SECONDS_TEXT == "s"

NoReport == [number_of_rooms |-> 0, number_of_valid_paths |-> 0]

\* ---- planCoveragePaths ----

\* lines 467-471: transform path to map coordinates
ToMapCoordinates(pose) ==
    [x |-> (pose.x - MAP_ORIGIN) \div MapResolution,
     y |-> (pose.y - MAP_ORIGIN) \div MapResolution,
     theta |-> pose.theta]

\* line 475, output << coverage_path[point]: the stream operator of the message
\* geometry_msgs::Pose2D hands the pose to the printer of the message, which writes
\* each field as its name, a colon and the value, and ends each with a newline
PrintedPose(pose) ==
    << <<Word("x: "), Number(pose.x)>>,
       <<Word("y: "), Number(pose.y)>>,
       <<Word("theta: "), Number(pose.theta)>> >>

\* line 475, << std::endl: after the printer's last newline this ends an empty line
PoseLines(pose) == PrintedPose(pose) \o <<EmptyLine>>

ExceededLine(index) == <<Word(ROOM_TEXT), Number(index), Word(EXCEEDED_TEXT)>>
BugLine(index) == <<Word(ROOM_TEXT), Number(index), Word(BUG_TEXT)>>
TimeLine(time) == <<Word(TIME_TEXT), Number(time), Word(SECONDS_TEXT)>>

\* what one pass of the loop over the rooms streams into the log
RoomLines(index, result) ==
    IF ~result.planned
    THEN <<ExceededLine(index), EmptyLine>>
    ELSE IF Len(result.coverage_path) = 0
    THEN <<BugLine(index), EmptyLine>>
    ELSE LET coverage_path == [point \in 1..Len(result.coverage_path) |->
                                  ToMapCoordinates(result.coverage_path[point])]
         IN <<TimeLine(result.calculation_time)>>
            \o Flatten([point \in 1..Len(coverage_path) |-> PoseLines(coverage_path[point])])
            \o <<EmptyLine>>

\* lines 392-483: one pass of the loop over the rooms
PlanRoom ==
    /\ evaluation_pc = "plan"
    /\ room_index < Len(room_results)
    /\ output' = output \o RoomLines(room_index, room_results[room_index + 1])
    /\ room_index' = room_index + 1
    /\ UNCHANGED <<inputs, path, reply_at, locals, solver, room_results,
                   exploration_algorithm, evaluation_pc, results_file, lines_read, paths,
                   calculation_times, current_path, initial, room, nonzero_paths, report>>

\* lines 484-491: the log goes to the results file
WriteLog ==
    /\ evaluation_pc = "plan"
    /\ room_index = Len(room_results)
    /\ results_file' = output
    /\ evaluation_pc' = IF Len(output) = 0 THEN "evaluate" ELSE "read"
    /\ UNCHANGED <<inputs, path, reply_at, locals, solver, room_results,
                   exploration_algorithm, room_index, output, lines_read, paths,
                   calculation_times, current_path, initial, room, nonzero_paths, report>>

\* ---- evaluateCoveragePaths ----

\* line 562: line.find("exceeded"), line.find("bug")
FindsExceeded(line) == \E i \in 1..Len(line) : line[i] = Word(EXCEEDED_TEXT)
FindsBug(line) == \E i \in 1..Len(line) : line[i] = Word(BUG_TEXT)

\* lines 564-567
MaxCalculationTime(algorithm) ==
    IF algorithm = FLOW_NETWORK_EXPLORATOR THEN MAX_TIME_FLOW_NETWORK ELSE MAX_TIME

\* lines 570-571
false_pose == [x |-> -1, y |-> -1, theta |-> 0]

\* lines 542-543: what a local of the loop body holds when nothing was assigned to it
IndeterminateValues == {0, 1}

FirstNumber(line) ==
    IF \E i \in 1..Len(line) : line[i].numeric
    THEN CHOOSE i \in 1..Len(line) : line[i].numeric /\ \A j \in 1..(i - 1) : ~line[j].numeric
    ELSE 0

\* line 578, sscanf(str, "%*[^0-9]%lf", &calculation_time): one character or more that
\* is no digit is skipped, a minus sign among them, and the number that follows is
\* read; a line that begins with a digit, or holds none, leaves calculation_time as
\* it was
ScannedTimes(line) ==
    LET i == FirstNumber(line)
    IN IF i = 0 \/ (i = 1 /\ line[1].number >= 0)
       THEN IndeterminateValues
       ELSE {Abs(line[i].number)}

\* line 592, getline(iss, buffer, ','): the pieces between the commas
HasComma(line) == \E i \in 1..Len(line) : line[i] = Word(",")
FirstComma(line) == CHOOSE i \in 1..Len(line) :
                        line[i] = Word(",") /\ \A j \in 1..(i - 1) : line[j] /= Word(",")

RECURSIVE Fields(_)
Fields(line) ==
    IF Len(line) = 0 THEN <<>>
    ELSE IF ~HasComma(line) THEN <<line>>
    ELSE <<SubSeq(line, 1, FirstComma(line) - 1)>>
         \o Fields(SubSeq(line, FirstComma(line) + 1, Len(line)))

\* lines 595-596: remove brackets
WithoutBrackets(buffer) ==
    SelectSeq(buffer, LAMBDA piece : piece /= Word("[") /\ piece /= Word("]"))

\* atof: white space is skipped; the number the text begins with, 0.0 if it begins
\* with none
Atof(buffer) ==
    LET text == IF Len(buffer) > 0 /\ buffer[1] = Word(" ") THEN Tail(buffer) ELSE buffer
    IN IF Len(text) > 0 /\ text[1].numeric THEN text[1].number ELSE 0

\* lines 586-608: the values x, y and theta hold after the loop over the fields
ParsedPoses(line) ==
    LET buffers == [i \in 1..Len(Fields(line)) |-> WithoutBrackets(Fields(line)[i])]
        Value(pos_counter) == IF Len(buffers) > pos_counter
                              THEN {Atof(buffers[pos_counter + 1])}
                              ELSE IndeterminateValues
    IN {[x |-> x, y |-> y, theta |-> theta] :
            x \in Value(0), y \in Value(1), theta \in Value(2)}

\* lines 539-621: one pass of the loop over the lines of the results file
ReadLine ==
    /\ evaluation_pc = "read"
    /\ lines_read < Len(results_file)
    /\ lines_read' = lines_read + 1
    /\ LET line == results_file[lines_read + 1]
       IN IF line = EmptyLine
          THEN /\ paths' = Append(paths, current_path)
               /\ current_path' = <<>>
               /\ initial' = TRUE
               /\ UNCHANGED calculation_times
          ELSE IF initial
          THEN /\ IF FindsExceeded(line) \/ FindsBug(line)
                  THEN /\ calculation_times' =
                              Append(calculation_times,
                                     MaxCalculationTime(exploration_algorithm))
                       /\ current_path' = Append(current_path, false_pose)
                  ELSE /\ \E calculation_time \in ScannedTimes(line) :
                              calculation_times' = Append(calculation_times, calculation_time)
                       /\ UNCHANGED current_path
               /\ initial' = FALSE
               /\ UNCHANGED paths
          ELSE /\ \E pose \in ParsedPoses(line) :
                      current_path' = IF pose.x > 0 /\ pose.y > 0
                                      THEN Append(current_path, pose)
                                      ELSE current_path
               /\ UNCHANGED <<paths, calculation_times, initial>>
    /\ evaluation_pc' = IF lines_read' = Len(results_file) THEN "evaluate" ELSE "read"
    /\ UNCHANGED <<inputs, path, reply_at, locals, solver, room_results,
                   exploration_algorithm, room_index, output, results_file, room,
                   nonzero_paths, report>>

\* lines 667-674: one pass of the loop over the paths, as far as it counts them
EvaluatePath ==
    /\ evaluation_pc = "evaluate"
    /\ room < Len(paths)
    /\ nonzero_paths' = IF Len(paths[room + 1]) = 0 THEN nonzero_paths
                        ELSE nonzero_paths + 1
    /\ room' = room + 1
    /\ UNCHANGED <<inputs, path, reply_at, locals, solver, room_results,
                   exploration_algorithm, evaluation_pc, room_index, output, results_file,
                   lines_read, paths, calculation_times, current_path, initial, report>>

\* lines 1195-1197: the first line of the evaluation file
WriteReport ==
    /\ evaluation_pc = "evaluate"
    /\ room = Len(paths)
    /\ report' = [number_of_rooms |-> Len(paths), number_of_valid_paths |-> nonzero_paths]
    /\ evaluation_pc' = "reported"
    /\ UNCHANGED <<inputs, path, reply_at, locals, solver, room_results,
                   exploration_algorithm, room_index, output, results_file, lines_read,
                   paths, calculation_times, current_path, initial, room, nonzero_paths>>

NextEvaluation == PlanRoom \/ WriteLog \/ ReadLine \/ EvaluatePath \/ WriteReport

----------------------------------------------------------------------------
(* Inputs *)

MaxReplies == 2     \* the solver's replies form a lasso of at most this length
MaxRange == 3       \* sparsity_check_range is drawn from 0..MaxRange

Pt(x, y) == [x |-> x, y |-> y]

\* max_fow_angle by its cosine sign*sqrt(num/den): pi, pi/2, pi/4
ANGLE_PI == [sign |-> -1, num |-> 1, den |-> 1]
ANGLE_HALF_PI == [sign |-> 1, num |-> 0, den |-> 1]
ANGLE_QUARTER_PI == [sign |-> 1, num |-> 1, den |-> 2]

\* a sensor that sees all around the robot up to `reach` pixels
AllRoundSensor(reach) ==
    [footprint |-> <<Pt(-reach, -reach), Pt(reach, -reach), Pt(reach, reach), Pt(-reach, reach)>>,
     robot_to_fow_middlepoint_vector |-> Pt(1, 0),
     max_fow_angle |-> ANGLE_PI,
     smallest_robot_to_fow_distance |-> 0,
     largest_robot_to_fow_distance |-> reach,
     map_resolution |-> 1]

\* a map of one pixel row
RowMap(pixels) ==
    [rows |-> 1, cols |-> Len(pixels),
     px |-> [p \in {0} \X (0..(Len(pixels) - 1)) |-> pixels[p[2] + 1]]]

WholeMap(map) == <<Pt(0, 0), Pt(map.cols - 1, map.rows - 1)>>

\* the rooms of the loop scenarios: three pixels in a row
ScenarioRooms == {RowMap(p) : p \in [1..3 -> {OBSTACLE, FREE}]}

\* the lassos of replies the solver can give to the relaxed problem of a room
Lassos(prob) ==
    {[replies |-> r, loop_from |-> l] :
        r \in UNION {[1..n -> Replies(prob)] : n \in 1..MaxReplies}, l \in 1..MaxReplies}

RelaxedProblemOf(map, roi, cs, dth, s) ==
    LET cells == CellCenters(map, roi, cs)
        poses == CandidatePoses(cells, dth)
    IN Problem(Len(poses), VisibilityMatrix(map, s, cells, poses), TRUE,
               InitialWeights(Len(poses)))

InitPlanner ==
    /\ pc = "start"
    /\ cell_centers = <<>>
    /\ candidate_sensing_poses = <<>>
    /\ W = <<>>
    /\ V = NoMatrix
    /\ C = <<>>
    /\ sparsity_converged = FALSE
    /\ weight_epsilon = 0
    /\ exponent = 0
    /\ number_of_iterations = 0
    /\ sparsity_measures = <<>>
    /\ new_number_of_variables = 0
    /\ V_reduced = NoMatrix
    /\ C_reduced = <<>>
    /\ path = <<>>
    /\ reply_at = 1
    /\ solver_calls = 0
    /\ solver_problem = NoProblem
    /\ solver_status = NOT_CALLED
    /\ files = NoFiles

\* ExplorationEvaluation has not been started
EvaluationIdle ==
    /\ room_results = <<>>
    /\ exploration_algorithm = CONVEX_SPP_EXPLORATOR
    /\ evaluation_pc = "idle"
    /\ room_index = 0
    /\ output = <<>>
    /\ results_file = <<>>
    /\ lines_read = 0
    /\ paths = <<>>
    /\ calculation_times = <<>>
    /\ current_path = <<>>
    /\ initial = TRUE
    /\ room = 0
    /\ nonzero_paths = 0
    /\ report = NoReport

InitLocals == InitPlanner /\ EvaluationIdle

\* the scenario rooms, with every lasso of solver replies
InitScenario ==
    /\ room_map \in ScenarioRooms
    /\ sensor \in {AllRoundSensor(1), AllRoundSensor(2)}
    /\ \E l \in Lassos(RelaxedProblemOf(room_map, WholeMap(room_map), 1, FULL_TURN, sensor)) :
          /\ l.loop_from <= Len(l.replies)
          /\ solver_replies = l.replies
          /\ loop_from = l.loop_from

\* a corridor of four free cells, with a solver that repeats one reply
Corridor == RowMap(<<FREE, FREE, FREE, FREE>>)

InitCorridor ==
    /\ room_map = Corridor
    /\ sensor \in {AllRoundSensor(1), AllRoundSensor(3)}
    /\ \E r \in Replies(RelaxedProblemOf(room_map, WholeMap(room_map), 1, FULL_TURN, sensor)) :
          solver_replies = <<r>>
    /\ loop_from = 1

Init ==
    /\ InitScenario \/ InitCorridor
    /\ room_min_max_coordinates = WholeMap(room_map)
    /\ cell_size = 1
    /\ delta_theta = FULL_TURN
    /\ sparsity_check_range \in 0..MaxRange
    /\ InitLocals

Spec == Init /\ [][Next]_vars

\* The runs of one room of two cells under every lasso of solver replies, with
\* fairness: getExplorationPath is sequential code and every solver call returns,
\* so a step that can be taken is taken.
TwoCellRoom == RowMap(<<OBSTACLE, FREE, FREE>>)

InitTermination ==
    /\ room_map = TwoCellRoom
    /\ sensor = AllRoundSensor(1)
    /\ \E l \in Lassos(RelaxedProblemOf(room_map, WholeMap(room_map), 1, FULL_TURN, sensor)) :
          /\ l.loop_from <= Len(l.replies)
          /\ solver_replies = l.replies
          /\ loop_from = l.loop_from
    /\ room_min_max_coordinates = WholeMap(room_map)
    /\ cell_size = 1
    /\ delta_theta = FULL_TURN
    /\ sparsity_check_range \in 0..MaxRange
    /\ InitLocals

FairSpec == InitTermination /\ [][Next]_vars /\ WF_vars(Next)

\* A second family of inputs: all maps of two pixel rows, every region of
\* interest inside the map and every cell size; the solver gives one fixed reply.
MapCols == 3
MaxCellSize == 2

GridMap(cols, pixels) ==
    [rows |-> 2, cols |-> cols, px |-> [p \in (0..1) \X (0..(cols - 1)) |-> pixels[p]]]

GridMaps == {GridMap(MapCols, f) : f \in [(0..1) \X (0..(MapCols - 1)) -> {OBSTACLE, FREE}]}

RegionsOf(map) ==
    {<<Pt(x1, y1), Pt(x2, y2)>> :
        x1 \in 0..(map.cols - 1), y1 \in 0..(map.rows - 1),
        x2 \in 0..(map.cols - 1), y2 \in 0..(map.rows - 1)}

\* the reply of a solver that sets every variable to 1.0 when that is a solution
AllOnesReply(prob) ==
    IF HasSolution(prob)
    THEN [status |-> QS_LP_OPTIMAL, x |-> [i \in 1..prob.ncols |-> ONE]]
    ELSE [status |-> QS_LP_INFEASIBLE, x |-> [i \in 1..prob.ncols |-> 0]]

InitMaps ==
    /\ room_map \in GridMaps
    /\ room_min_max_coordinates \in
          {r \in RegionsOf(room_map) : r[1].x <= r[2].x /\ r[1].y <= r[2].y}
    /\ cell_size \in 1..MaxCellSize
    /\ delta_theta = FULL_TURN
    /\ sensor = AllRoundSensor(1)
    /\ sparsity_check_range = 1
    /\ solver_replies = <<AllOnesReply(RelaxedProblemOf(room_map, room_min_max_coordinates,
                                                         cell_size, delta_theta, sensor))>>
    /\ loop_from = 1
    /\ InitLocals

SpecMaps == InitMaps /\ [][Next]_vars

\* A third family of inputs: all maps of two by two pixels and all corridors of
\* four pixels, every angular step,
\* and sensors that differ in footprint, opening angle, radii and resolution;
\* the solver gives one fixed reply.
MaxReach == 2       \* the largest sensing radius, in pixels

SquareMaps == {GridMap(2, f) : f \in [(0..1) \X (0..1) -> {OBSTACLE, FREE}]}
Corridors == {RowMap(p) : p \in [1..4 -> {OBSTACLE, FREE}]}

\* a footprint around the robot, and one ahead of it (in direction +x)
FootprintAround(l) == <<Pt(-l, -l), Pt(l, -l), Pt(l, l), Pt(-l, l)>>
FootprintAhead(l) == <<Pt(0, -l), Pt(l, -l), Pt(l, l), Pt(0, l)>>

Sensors ==
    {[footprint |-> fp, robot_to_fow_middlepoint_vector |-> Pt(res, 0),
      max_fow_angle |-> angle,
      smallest_robot_to_fow_distance |-> smallest,
      largest_robot_to_fow_distance |-> largest,
      map_resolution |-> res] :
        fp \in {FootprintAround(MaxReach * 2), FootprintAhead(MaxReach * 2)},
        angle \in {ANGLE_PI, ANGLE_HALF_PI, ANGLE_QUARTER_PI},
        smallest \in 0..2, largest \in 1..(MaxReach * 2), res \in 1..2}

\* the reply of a solver that sets every variable to 1.0 when that is a solution,
\* and otherwise leaves 0.5 in every entry of the result buffer
OnesOrGarbageReply(prob) ==
    IF HasSolution(prob)
    THEN [status |-> QS_LP_OPTIMAL, x |-> [i \in 1..prob.ncols |-> ONE]]
    ELSE [status |-> QS_LP_INFEASIBLE, x |-> [i \in 1..prob.ncols |-> 50]]

InitSensors ==
    /\ room_map \in SquareMaps \cup Corridors
    /\ room_min_max_coordinates = WholeMap(room_map)
    /\ cell_size = 1
    /\ delta_theta \in 1..FULL_TURN
    /\ sensor \in {s \in Sensors : /\ s.smallest_robot_to_fow_distance <= s.map_resolution
                                  /\ s.largest_robot_to_fow_distance >= s.map_resolution
                                  /\ s.largest_robot_to_fow_distance <= MaxReach * s.map_resolution}
    /\ sparsity_check_range = 1
    /\ solver_replies = <<OnesOrGarbageReply(RelaxedProblemOf(room_map, room_min_max_coordinates,
                                                               cell_size, delta_theta, sensor))>>
    /\ loop_from = 1
    /\ InitLocals

SpecSensors == InitSensors /\ [][Next]_vars

\* The evaluation of a map: up to MaxRooms rooms, each with what the planning of it
\* gave - the time limit exceeded, an empty path, or a path of up to MaxPoses
\* poses.  The planner itself is at rest.
MaxRooms == 2
MaxPoses == 2

SequencesUpTo(S, n) == UNION {[1..k -> S] : k \in 0..n}

CalculationTimes == {3, 4}

PlannedPoses == {[x |-> 2, y |-> 2, theta |-> 1], [x |-> 0, y |-> 2, theta |-> 1],
                 [x |-> 2, y |-> -1, theta |-> 1]}

RoomResults ==
    {[planned |-> FALSE, calculation_time |-> 0, coverage_path |-> <<>>]}
    \cup {[planned |-> TRUE, calculation_time |-> t, coverage_path |-> p] :
              t \in CalculationTimes, p \in SequencesUpTo(PlannedPoses, MaxPoses)}

InitEvaluation ==
    /\ room_map = TwoCellRoom
    /\ sensor = AllRoundSensor(1)
    /\ solver_replies = <<>>
    /\ loop_from = 1
    /\ room_min_max_coordinates = WholeMap(room_map)
    /\ cell_size = 1
    /\ delta_theta = FULL_TURN
    /\ sparsity_check_range = 0
    /\ InitPlanner
    /\ room_results \in SequencesUpTo(RoomResults, MaxRooms)
    /\ exploration_algorithm \in {CONVEX_SPP_EXPLORATOR, FLOW_NETWORK_EXPLORATOR}
    /\ evaluation_pc = "plan"
    /\ room_index = 0
    /\ output = <<>>
    /\ results_file = <<>>
    /\ lines_read = 0
    /\ paths = <<>>
    /\ calculation_times = <<>>
    /\ current_path = <<>>
    /\ initial = TRUE
    /\ room = 0
    /\ nonzero_paths = 0
    /\ report = NoReport

SpecEvaluation == InitEvaluation /\ [][NextEvaluation]_vars

----------------------------------------------------------------------------
(* Properties *)

Done == pc = "done"

\* the candidate poses the reduction keeps: ascending indices i with C[i] = 0.0
KeptIndices == SelectSeq([i \in 1..Len(C) |-> i], LAMBDA i : C[i] = 0)

\* the candidate poses with value 1 in the final integer solution, in candidate order
SelectedIndices ==
    SelectSeq([j \in 1..Len(C_reduced) |-> j], LAMBDA j : C_reduced[j] = 1)
SelectedPoses ==
    [k \in 1..Len(SelectedIndices) |-> candidate_sensing_poses[KeptIndices[SelectedIndices[k]]]]

Observes(pose_index, cell_index) == V.at[cell_index][pose_index] = 1
Observable(cell_index) == \E p \in 1..V.cols : Observes(p, cell_index)

\* every relaxed solve so far ended with status optimal
RelaxedSolvesOptimal ==
    \A i \in 1..Min(number_of_iterations, Len(solver_replies)) :
        solver_replies[i].status = QS_LP_OPTIMAL

\* the configuration is valid (sparsity_check_range > 0) and no relaxed solve failed
CleanRun == sparsity_check_range >= 1 /\ RelaxedSolvesOptimal

\* C1: when getExplorationPath has finished (valid configuration, every relaxed
\* solve optimal), every cell that some candidate pose observes is observed by
\* at least one pose selected by the final solution.
C1_CoverageCompleteness ==
    (Done /\ CleanRun) => \A c \in 1..V.rows :
                Observable(c) =>
                    \E k \in 1..Len(SelectedIndices) :
                        Observes(KeptIndices[SelectedIndices[k]], c)

\* C2: when getExplorationPath has finished (valid configuration, every solve
\* optimal), path holds exactly the selected candidate poses, in candidate order.
C2_PathHoldsSelection ==
    (Done /\ CleanRun /\ solver_status = QS_LP_OPTIMAL) => path = SelectedPoses

\* C3: the reweighting loop never performs more than 200 iterations (stated for
\* the runs in which every relaxed solve is optimal).
C3_IterationBound == CleanRun => number_of_iterations <= MAX_ITERATIONS

\* the measures 1..k end with a plateau of length n
PlateauAt(measures, k, n) ==
    /\ k >= n
    /\ \A i \in (k - n + 1)..k : measures[i] = measures[k]

\* C4: with sparsity_check_range n >= 1, after iteration k the loop has declared
\* convergence iff k >= n and the last n measures are all equal; no earlier
\* iteration completed a plateau, a converged loop does not iterate again, and a
\* loop that has not converged ends only by the iteration limit.
C4_ConvergenceDetection ==
    (sparsity_check_range >= 1 /\ number_of_iterations >= 1) =>
        /\ Len(sparsity_measures) = number_of_iterations
        /\ sparsity_converged
             = PlateauAt(sparsity_measures, number_of_iterations, sparsity_check_range)
        /\ \A k \in 1..(number_of_iterations - 1) :
              ~PlateauAt(sparsity_measures, k, sparsity_check_range)
        /\ sparsity_converged => pc /= "iterate"
        /\ (pc /= "iterate" /\ ~sparsity_converged) => number_of_iterations > MAX_ITERATIONS

\* C4 witness: a plateau of length 2 completed at iteration 3, not at iteration 2
C4_Witness ==
    /\ sparsity_check_range = 2
    /\ number_of_iterations = 3
    /\ sparsity_converged
    /\ sparsity_measures[1] /= sparsity_measures[2]
    /\ pc = "reduce"

C6_EmptyRegionStops ==
    (pc /= "start" /\ cell_centers = <<>> /\ sparsity_check_range >= 1) => solver_calls = 0

ZeroRow(M, r) == \A c \in 1..M.cols : M.at[r][c] = 0

\* C7: when a row of the visibility matrix is entirely zero, planning reports it
\* and hands no problem with an empty covering constraint to the solver.
C7_UnobservableCellReported ==
    (/\ pc \notin {"start", "build"}
     /\ sparsity_check_range >= 1
     /\ \E r \in 1..V.rows : ZeroRow(V, r)) =>
        /\ \A r \in 1..Len(solver_problem.rows) : solver_problem.rows[r].indices /= <<>>
        /\ ~Done

SolverFailed == solver_status \notin {NOT_CALLED, QS_LP_OPTIMAL}

\* C8: once a solver call has ended with a status other than optimal, no further
\* solver call is made and the planner does not go on to iterate, reduce or solve.
C8_FailurePropagates ==
    [][(SolverFailed /\ cell_centers /= <<>> /\ sparsity_check_range >= 1) =>
          (solver_calls' = solver_calls /\ pc' \notin {"iterate", "reduce", "final", "done"})]_vars

\* the reply the k-th relaxed solve received
ReplyIndex(k) ==
    IF k <= Len(solver_replies) THEN k
    ELSE loop_from + ((k - Len(solver_replies) - 1) % (Len(solver_replies) - loop_from + 1))

PhaseSteps ==
    {<<"start", "build">>, <<"build", "iterate">>, <<"iterate", "iterate">>,
     <<"iterate", "reduce">>, <<"reduce", "final">>, <<"final", "done">>}

\* C9: the phases follow Start -> Iterating -> (Converged | IterationLimitReached)
\* -> Reduce -> FinalSolve -> Done: the loop is left only converged or at the
\* iteration limit, Reduce and FinalSolve are each passed once and after the last
\* relaxed solve, and Reduce reads the solution of the most recent relaxed solve.
C9_PhaseOrdering ==
    [][/\ <<pc, pc'>> \in PhaseSteps
       /\ (pc = "start" \/ pc = "build") => solver_calls' = 0
       /\ pc = "iterate" => (solver_calls' = solver_calls + 1 /\ solver_problem'.integer = {})
       /\ pc' = "reduce" => (sparsity_converged' \/ number_of_iterations' > MAX_ITERATIONS)
       /\ pc' = "iterate" => ~sparsity_converged'
       /\ pc = "reduce" =>
             /\ solver_calls' = solver_calls
             /\ solver_calls = number_of_iterations
             /\ C = solver_replies[ReplyIndex(number_of_iterations)].x
             /\ V_reduced'.cols = Cardinality({i \in 1..Len(C) : C[i] = 0})
       /\ pc = "final" =>
             /\ solver_calls' = number_of_iterations + 1
             /\ solver_problem'.integer = 1..V_reduced.cols
             /\ C' = C
      ]_vars

\* C9 witness: a run that has passed every phase on the iteration-limit path
C9_Witness ==
    /\ Done
    /\ ~sparsity_converged
    /\ number_of_iterations > MAX_ITERATIONS
    /\ solver_calls = number_of_iterations + 1

\* C10: a grid point is a cell iff it lies on the lattice that starts half a
\* cell (truncated) after the minimum corner, is spaced cell_size apart and
\* ends at the maximum corner, and its pixel is free (255); no point is listed twice.
OnLattice(v, min, max, cs) == v >= min + (cs \div 2) /\ v <= max /\ (v - (min + (cs \div 2))) % cs = 0

C10_Discretization ==
    pc /= "start" =>
        /\ \A x \in 0..(room_map.cols - 1), y \in 0..(room_map.rows - 1) :
              (\E i \in 1..Len(cell_centers) : cell_centers[i] = Pt(x, y))
              <=> /\ OnLattice(x, room_min_max_coordinates[1].x, room_min_max_coordinates[2].x, cell_size)
                  /\ OnLattice(y, room_min_max_coordinates[1].y, room_min_max_coordinates[2].y, cell_size)
                  /\ room_map.px[<<y, x>>] = 255
        /\ \A i \in 1..Len(cell_centers) :
              /\ cell_centers[i].x \in 0..(room_map.cols - 1)
              /\ cell_centers[i].y \in 0..(room_map.rows - 1)
        /\ \A i, j \in 1..Len(cell_centers) : cell_centers[i] = cell_centers[j] => i = j

\* C10 witness: a cell size of 2, so that the lattice starts one pixel after
\* the minimum corner: the free lattice point is kept, the free pixels off the
\* lattice are left out
C10_Witness ==
    /\ pc /= "start"
    /\ cell_size = 2
    /\ room_min_max_coordinates = <<Pt(0, 0), Pt(2, 1)>>
    /\ room_map.px[<<0, 0>>] = FREE
    /\ room_map.px[<<1, 0>>] = FREE
    /\ room_map.px[<<1, 1>>] = FREE
    /\ room_map.px[<<1, 2>>] = FREE
    /\ cell_centers = <<Pt(1, 1)>>

----------------------------------------------------------------------------
(* Properties of the candidate poses and of the visibility matrix *)

\* the number of angles 0, delta_theta, 2*delta_theta, ... below the full turn
AnglesPerCell ==
    CHOOSE m \in 1..FULL_TURN :
        (m - 1) * delta_theta < FULL_TURN /\ m * delta_theta >= FULL_TURN

RowMajorBefore(a, b) == a.y < b.y \/ (a.y = b.y /\ a.x < b.x)

\* C11: the cells are listed row-major (y ascending, then x ascending); every
\* cell has one candidate pose for each angle 0, delta_theta, 2*delta_theta, ...
\* below the full turn, angles ascending, so the pose of cell i and angle a is
\* column i*m + a (counted from 0) of the visibility matrix, whose rows are the
\* cells and whose columns are the poses.  The order is a function of the input.
C11_CandidateOrdering ==
    pc /= "start" =>
        /\ \A i, j \in 1..Len(cell_centers) :
              i < j => RowMajorBefore(cell_centers[i], cell_centers[j])
        /\ Len(candidate_sensing_poses) = Len(cell_centers) * AnglesPerCell
        /\ \A i \in 1..Len(cell_centers), a \in 1..AnglesPerCell :
              candidate_sensing_poses[(i - 1) * AnglesPerCell + a]
                = [x |-> cell_centers[i].x, y |-> cell_centers[i].y,
                   theta |-> (a - 1) * delta_theta]
        /\ pc /= "build" =>
              V.rows = Len(cell_centers) /\ V.cols = Len(candidate_sensing_poses)

\* C11 witness: two rows of cells and four angles per cell; the sixth pose is
\* the second cell at the second angle
C11_Witness ==
    /\ pc = "iterate"
    /\ delta_theta = 1
    /\ Len(cell_centers) = 3
    /\ cell_centers[2].y < cell_centers[3].y
    /\ candidate_sensing_poses[6].x = cell_centers[2].x
    /\ candidate_sensing_poses[6].theta = 1
    /\ V.cols = 12

\* The four gates, stated geometrically.  In the maps of SpecSensors every
\* vector between two cells lies on an axis or on a diagonal, so directions are
\* whole eighth turns, the pixels of a line are the grid points on the segment,
\* and the transformed footprint is a rectangle parallel to the axes.

\* the direction of v in eighth turns, from +x towards +y
EighthTurns(v) ==
    CASE v.x > 0 /\ v.y = 0 -> 0
      [] v.x > 0 /\ v.y = v.x -> 1
      [] v.x = 0 /\ v.y > 0 -> 2
      [] v.x < 0 /\ v.y = -v.x -> 3
      [] v.x < 0 /\ v.y = 0 -> 4
      [] v.x < 0 /\ v.y = v.x -> 5
      [] v.x = 0 /\ v.y < 0 -> 6
      [] v.x > 0 /\ v.y = -v.x -> 7

HalfAngleEighths(angle) ==
    CASE angle = ANGLE_PI -> 4
      [] angle = ANGLE_HALF_PI -> 2
      [] angle = ANGLE_QUARTER_PI -> 1

PoseToCell(p, c) == Pt(c.x - p.x, c.y - p.y)

\* the angle between the heading of p and the direction to c, in eighth turns
AngleBetween(p, c) ==
    LET d == (EighthTurns(PoseToCell(p, c)) - 2 * p.theta) % 8
    IN Min(d, 8 - d)

\* the pose-to-cell distance lies in [min-radius, max-radius]
RangeGate(p, c) ==
    LET v == PoseToCell(p, c)
        d2 == (v.x * v.x + v.y * v.y) * sensor.map_resolution * sensor.map_resolution
    IN /\ sensor.smallest_robot_to_fow_distance * sensor.smallest_robot_to_fow_distance <= d2
       /\ d2 <= sensor.largest_robot_to_fow_distance * sensor.largest_robot_to_fow_distance

\* the angle to the rotated centroid vector exists and is at most the half-angle
AngleGate(p, c) ==
    /\ PoseToCell(p, c) /= Pt(0, 0)
    /\ AngleBetween(p, c) <= HalfAngleEighths(sensor.max_fow_angle)

\* the cell is inside or on the transformed footprint
FootprintGate(p, c) ==
    LET pts == TransformedFowPoints(room_map, sensor, p)
    IN /\ \E i \in 1..Len(pts) : pts[i].x <= c.x
       /\ \E i \in 1..Len(pts) : pts[i].x >= c.x
       /\ \E i \in 1..Len(pts) : pts[i].y <= c.y
       /\ \E i \in 1..Len(pts) : pts[i].y >= c.y

\* no pixel between pose and cell, the two included, is occupied
SightGate(p, c) ==
    \A x \in 0..(room_map.cols - 1), y \in 0..(room_map.rows - 1) :
        (/\ Min(p.x, c.x) <= x /\ x <= Max(p.x, c.x)
         /\ Min(p.y, c.y) <= y /\ y <= Max(p.y, c.y)
         /\ (x - p.x) * (c.y - p.y) = (y - p.y) * (c.x - p.x))
        => room_map.px[<<y, x>>] /= OBSTACLE

\* C12: V[cell][pose] is 1 iff the four gates pass - distance within
\* [min-radius, max-radius], angle to the rotated centroid vector at most the
\* half-angle, cell inside or on the transformed footprint, no occupied pixel on
\* the line from pose to cell - and 0 otherwise.  (For the cell a pose stands on
\* there is no angle, and the angle gate does not pass.)
C12_VisibilityRelation ==
    pc \notin {"start", "build"} =>
        \A c \in 1..V.rows, p \in 1..V.cols :
            V.at[c][p] =
                IF /\ RangeGate(candidate_sensing_poses[p], cell_centers[c])
                   /\ AngleGate(candidate_sensing_poses[p], cell_centers[c])
                   /\ FootprintGate(candidate_sensing_poses[p], cell_centers[c])
                   /\ SightGate(candidate_sensing_poses[p], cell_centers[c])
                THEN 1 ELSE 0

\* C12 witness: one matrix with an entry 1, an entry that only the line of
\* sight sets to 0, and an entry in range that the angle gate sets to 0
C12_Witness ==
    /\ pc = "iterate"
    /\ \E c \in 1..V.rows, p \in 1..V.cols : V.at[c][p] = 1
    /\ \E c \in 1..V.rows, p \in 1..V.cols :
          /\ RangeGate(candidate_sensing_poses[p], cell_centers[c])
          /\ AngleGate(candidate_sensing_poses[p], cell_centers[c])
          /\ FootprintGate(candidate_sensing_poses[p], cell_centers[c])
          /\ ~SightGate(candidate_sensing_poses[p], cell_centers[c])
          /\ V.at[c][p] = 0
    /\ \E c \in 1..V.rows, p \in 1..V.cols :
          /\ RangeGate(candidate_sensing_poses[p], cell_centers[c])
          /\ cell_centers[c] /= Pt(candidate_sensing_poses[p].x, candidate_sensing_poses[p].y)
          /\ ~AngleGate(candidate_sensing_poses[p], cell_centers[c])
          /\ V.at[c][p] = 0

\* the square of the pose-to-cell distance, in the unit of the radii
DistanceSquared(p, c) ==
    LET v == PoseToCell(p, c)
    IN (v.x * v.x + v.y * v.y) * sensor.map_resolution * sensor.map_resolution

AtMaxRadius(p, c) ==
    DistanceSquared(p, c) = sensor.largest_robot_to_fow_distance * sensor.largest_robot_to_fow_distance
AtMinRadius(p, c) ==
    DistanceSquared(p, c) = sensor.smallest_robot_to_fow_distance * sensor.smallest_robot_to_fow_distance
AtHalfAngle(p, c) ==
    /\ PoseToCell(p, c) /= Pt(0, 0)
    /\ AngleBetween(p, c) = HalfAngleEighths(sensor.max_fow_angle)

\* C13: the boundaries of the gates are inclusive: a cell exactly at the maximum
\* radius, or exactly at the minimum radius, passes the range gate, and a cell
\* exactly at the half-angle passes the angle gate - such a cell is visible
\* whenever the remaining gates pass.
C13_InclusiveBoundaries ==
    pc \notin {"start", "build"} =>
        \A c \in 1..V.rows, p \in 1..V.cols :
            LET pose == candidate_sensing_poses[p]
                cell == cell_centers[c]
                rest == FootprintGate(pose, cell) /\ SightGate(pose, cell)
            IN /\ (AtMaxRadius(pose, cell) /\ ~AtMinRadius(pose, cell) /\ RangeGate(pose, cell)
                    /\ AngleGate(pose, cell) /\ rest) => V.at[c][p] = 1
               /\ (AtMinRadius(pose, cell) /\ ~AtMaxRadius(pose, cell) /\ RangeGate(pose, cell)
                    /\ AngleGate(pose, cell) /\ rest) => V.at[c][p] = 1
               /\ (AtMaxRadius(pose, cell) /\ AtMinRadius(pose, cell)
                    /\ AngleGate(pose, cell) /\ rest) => V.at[c][p] = 1
               /\ (AtHalfAngle(pose, cell) /\ RangeGate(pose, cell) /\ rest) => V.at[c][p] = 1

\* C13 witness: one matrix with a visible cell exactly at the maximum radius
\* (two pixels away, inside the minimum radius), a visible cell exactly at the
\* minimum radius, and a visible cell exactly at a half-angle of a quarter turn
C13_Witness ==
    /\ pc = "iterate"
    /\ room_map.cols = 4
    /\ sensor.max_fow_angle = ANGLE_HALF_PI
    /\ \E c \in 1..V.rows, p \in 1..V.cols :
          /\ AtMaxRadius(candidate_sensing_poses[p], cell_centers[c])
          /\ ~AtMinRadius(candidate_sensing_poses[p], cell_centers[c])
          /\ PoseToCell(candidate_sensing_poses[p], cell_centers[c]) = Pt(2, 0)
          /\ V.at[c][p] = 1
    /\ \E c \in 1..V.rows, p \in 1..V.cols :
          /\ AtMinRadius(candidate_sensing_poses[p], cell_centers[c])
          /\ ~AtMaxRadius(candidate_sensing_poses[p], cell_centers[c])
          /\ V.at[c][p] = 1
    /\ \E c \in 1..V.rows, p \in 1..V.cols :
          /\ AtHalfAngle(candidate_sensing_poses[p], cell_centers[c])
          /\ V.at[c][p] = 1

\* C14 (Scenario A): with one free cell and one candidate pose, at the centre
\* of that cell, whose footprint covers the cell (distance 0 within the radii,
\* no obstacle on the line of sight), the visibility matrix is [[1]] and the
\* final output is that one pose.
C14_ScenarioA ==
    (/\ pc \notin {"start", "build"}
     /\ sparsity_check_range >= 1
     /\ Len(cell_centers) = 1
     /\ Len(candidate_sensing_poses) = 1
     /\ RangeGate(candidate_sensing_poses[1], cell_centers[1])
     /\ FootprintGate(candidate_sensing_poses[1], cell_centers[1])
     /\ SightGate(candidate_sensing_poses[1], cell_centers[1])) =>
        /\ V.at = << <<1>> >>
        /\ Done => path = candidate_sensing_poses

----------------------------------------------------------------------------
(* Properties of the solver adapter and of the reweighting loop *)

\* C15: a call of solveOptimizationProblem changes nothing but the solution
\* vector it fills: the visibility matrices are unchanged, and no file is created
\* or modified (stated for valid configurations and a solve that ends optimal).
C15_SolveSideEffectFree ==
    [][(/\ solver_calls' = solver_calls + 1
        /\ sparsity_check_range >= 1
        /\ cell_centers /= <<>>
        /\ solver_status' = QS_LP_OPTIMAL) =>
          (V' = V /\ V_reduced' = V_reduced /\ files' = files)]_vars

\* C16: in iteration k the weight update uses the exponent 1 + (k-1)*0.1, that
\* is 10 + (k-1) tenths: 1.0, 1.1, 1.2, ..., a different exponent in every
\* iteration.
C16_EpsilonSchedule ==
    (number_of_iterations >= 1 /\ CleanRun /\ cell_centers /= <<>>) =>
        10 * exponent = 10 + (number_of_iterations - 1)

\* a solution value, in the unit of weight_epsilon (millionths)
InMillionths(c) == c * 10000

\* a < b for two weights with the same positive numerator
WeightLess(a, b) == a.num = b.num /\ a.num > 0 /\ b.den > 0 /\ a.den > b.den

\* C17: at the end of every iteration each weight is epsilon_k / (epsilon_k + c_i)
\* for that iteration's solution value c_i; so for c_i in [0,1] every weight is
\* in (0,1], c_i = 0 gives the weight 1, and of two columns the one with the
\* larger solution value has the strictly smaller weight.
C17_WeightUpdate ==
    number_of_iterations >= 1 =>
        /\ weight_epsilon > 0
        /\ Len(W) = Len(C)
        /\ \A i \in 1..Len(C) :
              /\ W[i].num = weight_epsilon
              /\ W[i].den = weight_epsilon + InMillionths(C[i])
        /\ (\A i \in 1..Len(C) : 0 <= C[i] /\ C[i] <= 100) =>
              /\ \A i \in 1..Len(C) :
                    /\ 0 < W[i].num /\ W[i].num <= W[i].den
                    /\ C[i] = 0 => W[i].num = W[i].den
              /\ \A i, j \in 1..Len(C) : C[i] > C[j] => WeightLess(W[i], W[j])

\* C17 witness: a solution with the values 0.0, 0.01 and 1.0 and the three
\* different weights that follow from them
C17_Witness ==
    /\ number_of_iterations = 2
    /\ Len(C) = 4
    /\ C[1] = 0 /\ C[2] = 1 /\ C[3] = 100
    /\ W[1].num = W[1].den
    /\ WeightLess(W[2], W[1])
    /\ WeightLess(W[3], W[2])

\* the weight epsilon/(epsilon + c) of a solution value c
WeightOf(eps, c) == [num |-> eps, den |-> eps + InMillionths(c)]

\* C18: the relaxed solve of iteration 1 has cost 1.0 on every column; the
\* relaxed solve of iteration k+1 has as costs exactly the weights computed from
\* the solution of iteration k (with the epsilon of iteration k); every variable
\* has the bounds [0,1]; and the solution of iteration k+1 is the reply to that
\* solve.
C18_StrictSequencing ==
    [][pc = "iterate" =>
         /\ number_of_iterations' = number_of_iterations + 1
         /\ solver_problem'.lower = 0
         /\ solver_problem'.upper = 100
         /\ solver_problem'.integer = {}
         /\ solver_problem'.ncols = Len(candidate_sensing_poses)
         /\ Len(solver_problem'.cost) = Len(candidate_sensing_poses)
         /\ \A i \in 1..Len(candidate_sensing_poses) :
               solver_problem'.cost[i] =
                   IF number_of_iterations = 0
                   THEN [num |-> 1, den |-> 1]
                   ELSE WeightOf(weight_epsilon,
                                 solver_replies[ReplyIndex(number_of_iterations)].x[i])
         /\ C' = solver_replies[ReplyIndex(number_of_iterations + 1)].x
      ]_vars

\* C18 witness: the third relaxed solve, after two different optimal solutions:
\* its costs are the weights of the second solution, not those of the first
C18_Witness ==
    /\ number_of_iterations = 3
    /\ Len(solver_replies) = 2
    /\ loop_from = 1
    /\ solver_replies[1].status = QS_LP_OPTIMAL
    /\ solver_replies[2].status = QS_LP_OPTIMAL
    /\ Len(C) = 3
    /\ solver_replies[1].x /= solver_replies[2].x
    /\ \E i \in 1..Len(C) :
          /\ solver_problem.cost[i] = WeightOf(EpsilonPow(1), solver_replies[2].x[i])
          /\ solver_problem.cost[i] /= WeightOf(EpsilonPow(1), solver_replies[1].x[i])
          /\ solver_problem.cost[i] /= [num |-> 1, den |-> 1]

\* C19: every iteration appends exactly one measurement, the number of columns
\* whose solution value is <= 0.01 (0.01 included); no other step touches the
\* history and earlier entries stay as they are; so the history is as long as
\* the iteration counter says and every entry lies between 0 and the number of
\* candidate poses.
C19_SparsityHistory ==
    [][/\ pc = "iterate" =>
            /\ Len(sparsity_measures') = Len(sparsity_measures) + 1
            /\ SubSeq(sparsity_measures', 1, Len(sparsity_measures)) = sparsity_measures
            /\ sparsity_measures'[Len(sparsity_measures')]
                  = Cardinality({i \in 1..Len(C') : C'[i] <= 1})
       /\ pc /= "iterate" => sparsity_measures' = sparsity_measures
       /\ Len(sparsity_measures') = number_of_iterations'
       /\ \A k \in 1..Len(sparsity_measures') :
             /\ 0 <= sparsity_measures'[k]
             /\ sparsity_measures'[k] <= Len(candidate_sensing_poses')
      ]_vars

\* C19 witness: three iterations, the latest solution has one value 0.0 and one
\* value 0.01, and both are counted
C19_Witness ==
    /\ number_of_iterations = 3
    /\ C = <<0, 1, 100, 100>>
    /\ sparsity_measures = <<2, 2, 2>>

\* the matrix the latest solver call was given
GivenMatrix == IF Done THEN V_reduced ELSE V

\* C20: every solve has one variable per column of the matrix it is given, in
\* column order, and one covering constraint per row, in row order: the sum,
\* with coefficient 1.0, of exactly the variables whose column has a 1 in that
\* row, >= 1.0.
C20_ProblemConstruction ==
    solver_calls >= 1 =>
        /\ solver_problem.ncols = GivenMatrix.cols
        /\ Len(solver_problem.cost) = GivenMatrix.cols
        /\ Len(solver_problem.rows) = GivenMatrix.rows
        /\ \A r \in 1..GivenMatrix.rows :
              LET row == solver_problem.rows[r]
              IN /\ row.rhs = 100
                 /\ row.sense = "G"
                 /\ \A c \in 1..GivenMatrix.cols :
                       (GivenMatrix.at[r][c] = 1)
                       <=> (\E k \in 1..Len(row.indices) : row.indices[k] = c)
                 /\ \A k \in 1..Len(row.indices) : row.indices[k] \in 1..GivenMatrix.cols
                 /\ \A k, l \in 1..Len(row.indices) : k < l => row.indices[k] < row.indices[l]
                 /\ Len(row.coefficients) = Len(row.indices)
                 /\ \A k \in 1..Len(row.coefficients) : row.coefficients[k] = 100

\* C20 witness: the final solve of a reduced problem with two columns and four
\* rows, of which the first has one variable and the third has both
C20_Witness ==
    /\ Done
    /\ V_reduced.cols = 2
    /\ Len(solver_problem.rows) = 4
    /\ solver_problem.rows[1].indices = <<2>>
    /\ solver_problem.rows[3].indices = <<1, 2>>
    /\ solver_problem.integer = {1, 2}

----------------------------------------------------------------------------
(* Properties of the reduction and of the final solve *)

\* C21: the reduced problem is solved exactly once, as an integer program with
\* cost 1.0 on every variable and every reduced column declared integer; every
\* coefficient of the final solution is 0 or 1, and the columns with value 1
\* satisfy every covering constraint of the reduced problem (stated for valid
\* configurations in which every relaxed solve was optimal).
C21_FinalSolve ==
    (Done /\ CleanRun) =>
        /\ solver_calls = number_of_iterations + 1
        /\ solver_problem.ncols = V_reduced.cols
        /\ solver_problem.integer = 1..V_reduced.cols
        /\ \A j \in 1..V_reduced.cols : solver_problem.cost[j] = [num |-> 1, den |-> 1]
        /\ Len(C_reduced) = V_reduced.cols
        /\ \A j \in 1..Len(C_reduced) : C_reduced[j] \in {0, 1}
        /\ \A r \in 1..V_reduced.rows :
              \E j \in 1..V_reduced.cols : C_reduced[j] = 1 /\ V_reduced.at[r][j] = 1

\* C22: for every candidate pose and every footprint point, the transformed
\* point stored for the polygon test is a pixel of the map: 0 <= x <= cols-1 and
\* 0 <= y <= rows-1.
C22_FootprintInsideMap ==
    pc \notin {"start", "build"} =>
        \A p \in 1..Len(candidate_sensing_poses) :
            LET pts == TransformedFowPoints(room_map, sensor, candidate_sensing_poses[p])
            IN \A i \in 1..Len(pts) :
                  /\ 0 <= pts[i].x /\ pts[i].x <= room_map.cols - 1
                  /\ 0 <= pts[i].y /\ pts[i].y <= room_map.rows - 1

\* C23: in the angle gate a zero product of the norms (the cell is the cell of
\* the pose, or the centroid vector is zero) is handled before the division: no
\* quotient that is not a number reaches the clamp, the inverse cosine and the
\* comparison with the half-angle.
C23_ZeroDenominatorGuard ==
    pc \notin {"start", "build"} =>
        \A c \in 1..Len(cell_centers), p \in 1..Len(candidate_sensing_poses) :
            InRange(sensor, candidate_sensing_poses[p], cell_centers[c])
            => ~QuotientIsNaN(sensor, candidate_sensing_poses[p], cell_centers[c])

\* the candidate poses with a non-zero value in the last relaxed solution
NonZeroIndices == SelectSeq([i \in 1..Len(C) |-> i], LAMBDA i : C[i] /= 0)

\* C24: as the comment of lines 159-162 states the reduction, the candidate
\* poses whose variable equals 0 are discarded and the reduced problem is built
\* from the remaining ones, those with a non-zero relaxed value.
C24_ReductionAsDocumented ==
    (pc \in {"final", "done"} /\ CleanRun) =>
        /\ V_reduced.cols = Len(NonZeroIndices)
        /\ new_number_of_variables = Len(NonZeroIndices)
        /\ \A r \in 1..V.rows :
              V_reduced.at[r] = [j \in 1..Len(NonZeroIndices) |-> V.at[r][NonZeroIndices[j]]]

\* C25: for every input and every sequence of solver results the planner
\* reaches Done: the loop ends by convergence or by the iteration limit (its
\* counter never passes the limit by more than one), and reduction and the final
\* solve follow.
C25_Termination ==
    /\ [](number_of_iterations <= MAX_ITERATIONS + 1)
    /\ <>Done

\* C25 witness: a run that ended at the iteration limit although solver calls
\* failed on the way
C25_Witness ==
    /\ Done
    /\ number_of_iterations = MAX_ITERATIONS + 1
    /\ ~sparsity_converged
    /\ \E i \in 1..Len(solver_replies) : solver_replies[i].status /= QS_LP_OPTIMAL

\* C28: after the build of the visibility matrix every entry V[c][p], for every
\* cell c and every candidate pose p, has been written and holds 0 or 1: each
\* branch of the gate cascade assigns the entry, none is left as allocated.
C28_MatrixFullyWritten ==
    pc \notin {"start", "build"} =>
        /\ V.rows = Len(cell_centers)
        /\ V.cols = Len(candidate_sensing_poses)
        /\ Len(V.at) = V.rows
        /\ \A c \in 1..V.rows :
              /\ Len(V.at[c]) = V.cols
              /\ \A p \in 1..V.cols : V.at[c][p] \in {0, 1}

\* the gate of the cascade that decides the entry of cell c and pose p:
\* 1 range, 2 angle, 3 footprint, 4 line of sight, 5 none (the cell is visible)
DecidingGate(c, p) ==
    LET pose == candidate_sensing_poses[p]
        cell == cell_centers[c]
    IN IF ~RangeGate(pose, cell) THEN 1
       ELSE IF ~AngleGate(pose, cell) THEN 2
       ELSE IF ~FootprintGate(pose, cell) THEN 3
       ELSE IF ~SightGate(pose, cell) THEN 4
       ELSE 5

\* C28 witness: a matrix in which every branch of the cascade has written an entry
C28_Witness ==
    /\ pc = "iterate"
    /\ \A g \in 1..5 :
          \E c \in 1..V.rows, p \in 1..V.cols :
              DecidingGate(c, p) = g /\ V.at[c][p] = (IF g = 5 THEN 1 ELSE 0)

\* C29: with sparsity_check_range = 1, and likewise with 0, the loop declares
\* convergence at the end of iteration 1 whatever the solver answers: exactly
\* one relaxed solve is made, with cost 1.0 on every column, the reduction works
\* on its solution, and no solve ever has an adapted weight as a cost.
C29_RangeOne ==
    sparsity_check_range <= 1 =>
        /\ number_of_iterations <= 1
        /\ number_of_iterations = 1 =>
              /\ sparsity_converged
              /\ pc /= "iterate"
              /\ C = solver_replies[1].x
        /\ pc \in {"reduce", "final", "done"} => number_of_iterations = 1
        /\ pc \in {"final", "done"} =>
              V_reduced.cols = Cardinality({i \in 1..Len(solver_replies[1].x) :
                                              solver_replies[1].x[i] = 0})
        /\ solver_calls <= 2
        /\ \A i \in 1..Len(solver_problem.cost) : solver_problem.cost[i] = [num |-> 1, den |-> 1]

\* C29 witness: a finished run with range 1 and an optimal first solve: one
\* iteration, two solver calls, and adapted weights that no solve has used
C29_Witness ==
    /\ Done
    /\ sparsity_check_range = 1
    /\ solver_replies[1].status = QS_LP_OPTIMAL
    /\ number_of_iterations = 1
    /\ solver_calls = 2
    /\ Len(C) = 3
    /\ \E i \in 1..Len(W) : W[i] /= [num |-> 1, den |-> 1] /\ W[i].num /= W[i].den
    /\ V_reduced.cols = 1

----------------------------------------------------------------------------
(* Properties of the results log of the evaluation *)

\* the paths that hold a pose that is not the marker of a room without a path
ActualPaths == {r \in 1..Len(paths) : Len(paths[r]) > 0 /\ paths[r] /= <<false_pose>>}

\* C26: the number the evaluation file gives as "number of valid paths" is the number
\* of rooms with an actual coverage path; a room that exceeded the time limit or had
\* a bug, of which only the marker pose (-1,-1) is stored, is not counted.
C26_ValidPathsCount ==
    evaluation_pc = "reported" =>
        report.number_of_valid_paths = Cardinality(ActualPaths)

\* what planCoveragePaths wrote for a room, and what the log says of the room
RoomFailed(result) == ~result.planned \/ Len(result.coverage_path) = 0
WrittenPoses(result) ==
    [point \in 1..Len(result.coverage_path) |->
        ToMapCoordinates(result.coverage_path[point])]
ExpectedPath(result) ==
    IF RoomFailed(result)
    THEN <<false_pose>>
    ELSE SelectSeq(WrittenPoses(result), LAMBDA pose : pose.x > 0 /\ pose.y > 0)

====
